---- MODULE Spec2Model ----
(***************************************************************************)
(* The recursive research loop of ai-browser-contextual-search:           *)
(* Looper.start / executeSteps / evaluateProgress / synthesize            *)
(* (backend/api/engine/looper.js) driven by Coordinator.plan              *)
(* (classifyIntent, generateSteps).                                       *)
(*                                                                         *)
(* Numbers that are fractions in the source (satisfaction, confidence)    *)
(* are scaled by 100: 0.85 is 85.                                          *)
(*                                                                         *)
(* looper.js calls context.logInteraction, context.ingest,                *)
(* context.getTotalWordCount, context.getSourceCount, context.getSources  *)
(* and Coordinator.replan.  None of them is defined in the source at hand *)
(* (the ContextGraph class there holds nodes/edges/lastSnapshot only):    *)
(* they are modelled from the design document, sections 3 and 4.1, and    *)
(* are marked as such below.                                               *)
(***************************************************************************)
EXTENDS Integers, Sequences, FiniteSets, TLC

(***************************************************************************)
(* Bounds of the model.                                                    *)
(***************************************************************************)
\* longest query, in words
MaxQueryLen == 2
\* longest query of the specification that starts from an arbitrary store
AnyStoreQueryLen == 1

(***************************************************************************)
(* Program constants.                                                      *)
(***************************************************************************)
DeepBudget == 4
FastBudget == 2
SatisfactionThreshold == 85
HighWords == 1000
LowWords == 500
HighSatisfaction == 90
MediumSatisfaction == 70
LowSatisfaction == 30
TopReads == 2
TopSources == 3
NumRefs == 6
\* words of the text ContentScraper.read returns
ReadWords == 37
SynthesisConfidence == 95
\* query.length > 20 of the /search handler
LengthThreshold == 20

(***************************************************************************)
(* Queries.  A query is a sequence of words; q.includes(k) is abstracted  *)
(* to "some word of q, lower-cased, is k".                                 *)
(***************************************************************************)
Vocabulary ==
    {"video", "VIDEO", "patent", "why", "sex", "weather",
     "counterrevolutionaries"}

\* the characters of a word
WordLen(w) ==
    CASE w \in {"video", "VIDEO"} -> 5
      [] w = "patent" -> 6
      [] w \in {"why", "sex"} -> 3
      [] w = "weather" -> 7
      [] w = "counterrevolutionaries" -> 22
      [] OTHER -> 1

toLowerCase(w) == IF w = "VIDEO" THEN "video" ELSE w

QueriesUpTo(n) == UNION {[1..k -> Vocabulary] : k \in 0..n}

Queries == QueriesUpTo(MaxQueryLen)

\* a query that is one blank, and a query that is a number, not a string
BlankQuery == <<" ">>
NonStringQuery == <<"#42">>

QueryInputs(n) == QueriesUpTo(n) \cup {BlankQuery, NonStringQuery}

IsString(q) == q # NonStringQuery

\* !query: the empty string is the only falsy query here
Falsy(q) == q = <<>>

RECURSIVE SumLen(_)
SumLen(q) == IF q = <<>> THEN 0 ELSE WordLen(Head(q)) + SumLen(Tail(q))

\* query.length: the words and the blanks between them
QueryLength(q) == IF q = <<>> THEN 0 ELSE SumLen(q) + Len(q) - 1

\* depth: query.length > 20 ? 'deep' : 'fast'; a number has no length
searchDepth(q) ==
    IF IsString(q) /\ QueryLength(q) > LengthThreshold THEN "deep" ELSE "fast"

includes(q, k) == \E i \in 1..Len(q) : toLowerCase(q[i]) = k

includesAny(q, ks) == \E k \in ks : includes(q, k)

MediaKeywords == {"compile", "scene", "video", "movie"}
OfflineKeywords == {"patent", "offline", "local", "private"}
ResearchKeywords == {"compare", "research", "find", "why"}
AdultKeywords == {"porn", "xxx", "adult", "nsfw", "sex"}

\* the adult rule tried before the other three
classifyIntentAdultFirst(q) ==
    IF includesAny(q, AdultKeywords)
    THEN [type |-> "ADULT_CONTENT", specialist |-> "RecursiveAgent",
          confidence |-> 99, breadth |-> "massive"]
    ELSE IF includesAny(q, MediaKeywords)
    THEN [type |-> "MEDIA_COMPILATION", specialist |-> "StudioDirector",
          confidence |-> 90, breadth |-> "undefined"]
    ELSE IF includesAny(q, OfflineKeywords)
    THEN [type |-> "OFFLINE_ANALYSIS", specialist |-> "LocalAnalyst",
          confidence |-> 95, breadth |-> "undefined"]
    ELSE IF includesAny(q, ResearchKeywords)
    THEN [type |-> "DEEP_RESEARCH", specialist |-> "RecursiveAgent",
          confidence |-> 85, breadth |-> "massive"]
    ELSE [type |-> "GENERAL_QUERY", specialist |-> "QuickSearch",
          confidence |-> 50, breadth |-> "undefined"]

classifyIntent(q) ==
    IF includesAny(q, MediaKeywords)
    THEN [type |-> "MEDIA_COMPILATION", specialist |-> "StudioDirector",
          confidence |-> 90, breadth |-> "undefined"]
    ELSE IF includesAny(q, OfflineKeywords)
    THEN [type |-> "OFFLINE_ANALYSIS", specialist |-> "LocalAnalyst",
          confidence |-> 95, breadth |-> "undefined"]
    ELSE IF includesAny(q, ResearchKeywords)
    THEN [type |-> "DEEP_RESEARCH", specialist |-> "RecursiveAgent",
          confidence |-> 85, breadth |-> "massive"]
    ELSE IF includesAny(q, AdultKeywords)
    THEN [type |-> "ADULT_CONTENT", specialist |-> "RecursiveAgent",
          confidence |-> 99, breadth |-> "massive"]
    ELSE [type |-> "GENERAL_QUERY", specialist |-> "QuickSearch",
          confidence |-> 50, breadth |-> "undefined"]

\* a step: its tool, and whether its params carry a query
Step(t, hq) == [tool |-> t, hasQuery |-> hq]

\* no step for an intent without a case of its own
generateStepsNoDefault(intent) ==
    CASE intent.type = "MEDIA_COMPILATION" ->
            <<Step("scout_videos", TRUE), Step("analyze_scenes", FALSE),
              Step("compile_video", FALSE)>>
      [] intent.type = "OFFLINE_ANALYSIS" ->
            <<Step("local_inference", FALSE)>>
      [] intent.type = "ADULT_CONTENT" ->
            <<Step("web_search", FALSE), Step("media_processor", FALSE)>>
      [] OTHER ->
            <<>>

generateSteps(intent) ==
    CASE intent.type = "MEDIA_COMPILATION" ->
            <<Step("scout_videos", TRUE), Step("analyze_scenes", FALSE),
              Step("compile_video", FALSE)>>
      [] intent.type = "OFFLINE_ANALYSIS" ->
            <<Step("local_inference", FALSE)>>
      [] intent.type = "ADULT_CONTENT" ->
            <<Step("web_search", FALSE), Step("media_processor", FALSE)>>
      [] OTHER ->
            <<Step("web_search", FALSE)>>

CoordinatorPlan(q) ==
    LET intent == classifyIntent(q)
    IN  [intent |-> intent, steps |-> generateSteps(intent)]

\* Coordinator.replan is not in the source: the design document has it
\* classify the query again and return a non-empty step list.
CoordinatorReplan(q, missingInfo) == CoordinatorPlan(q)

NoPlan == [intent |-> [type |-> "none", specialist |-> "none",
                       confidence |-> 0, breadth |-> "undefined"],
           steps |-> <<>>]

(***************************************************************************)
(* State.                                                                  *)
(***************************************************************************)
VARIABLES
    query,          \* start's first argument
    depth,          \* options.depth
    searchOutcome,  \* what the search provider does when it is called
    readOutcome,    \* what the read provider does for the i-th reference
    pc,             \* the position of start
    iterations,     \* let iterations
    maxIterations,  \* const maxIterations
    plan,           \* let plan
    stepIdx,        \* the position of executeSteps' for loop
    results,        \* executeSteps' const results
    newIntel,       \* the buffer executeSteps returned
    store,          \* the items the ContextGraph of the session holds
    interactions,   \* what logInteraction recorded
    audit,          \* const audit
    auditWordCount, \* const wordCount of evaluateProgress
    result,         \* what start returned
    visited,        \* steps the current executeSteps call has gone through
    failed,         \* those of them whose try block threw
    execPhases,     \* calls of executeSteps so far
    ingestCalls,    \* calls of context.ingest so far
    evalCalls,      \* calls of evaluateProgress so far
    replanCalls,    \* calls of Coordinator.replan so far
    entry,          \* who calls start: a caller of Looper, or POST /search
    reqDepth,       \* the depth flag the caller supplies
    http,           \* the position of the /search handler
    events,         \* the types of the chunks written to the response
    uiQuery,        \* App: overrideQuery || query
    uiFetch,        \* App: how the fetch of /search settles
    uiStream,       \* App: the lines of the response body
    uiPos,          \* App: how many of them the reader has handed over
    uiPc,           \* App: the position of handleSearch
    isFusing,       \* App: const [isFusing, setIsFusing]
    view,           \* App: const [view, setView]
    synthesis,      \* App: const [synthesis, setSynthesis]
    fusionStep,     \* App: const [fusionStep, setFusionStep]
    navQuery,       \* BubbleNav: the query prop
    timer,          \* BubbleNav: the query of the pending debounce timer
    inflight,       \* BubbleNav: the queries of the /suggest fetches in flight
    bubbles,        \* BubbleNav: const [bubbles, setBubbles]
    fetchFailed,    \* BubbleNav: a fetch has been rejected
    envPassword,    \* AIServer: process.env.CACHE_CLEAR_PASSWORD
    cache,          \* AIServer: this.cache, a Map from key to result
    request,        \* AIServer: the body of the last request handled
    response        \* AIServer: the status and body it was answered with

inputs == <<query, depth, searchOutcome, readOutcome, entry, reqDepth>>
handler == <<http, events>>
uiVars == <<uiQuery, uiFetch, uiStream, uiPos, uiPc, isFusing, view, synthesis,
            fusionStep>>
navVars == <<navQuery, timer, inflight, bubbles, fetchFailed>>
\* the state of the programs other than the engine and its handler
serverVars == <<envPassword, cache, request, response>>
others == <<uiVars, navVars, serverVars>>
counters == <<execPhases, ingestCalls, evalCalls, replanCalls>>
vars == <<query, depth, searchOutcome, readOutcome, pc, iterations,
          maxIterations, plan, stepIdx, results, newIntel, store,
          interactions, audit, auditWordCount, result, visited, failed,
          execPhases, ingestCalls, evalCalls, replanCalls, entry, reqDepth,
          http, events, others>>

\* cap of the executeSteps counter: the loop as written stays below it
MaxPhases == 6

DepthValues == {"fast", "deep", "absent"}
SearchOutcomes == {"throws", "empty", "refs"}
ReadOutcomes == [1..TopReads -> {"throws", "ok"}]

(***************************************************************************)
(* Items of a buffer and of the Context Store.                             *)
(***************************************************************************)
\* results.push({ type: 'urls', data: urls }): the references 1..n
UrlsItem(n) == [type |-> "urls", refs |-> n, source |-> 0, words |-> 0]
\* results.push({ type: 'content', source: url, data: content })
ContentItem(r, w) == [type |-> "content", refs |-> 0, source |-> r, words |-> w]

Min(a, b) == IF a < b THEN a ELSE b

RECURSIVE SumWords(_)
SumWords(items) ==
    IF items = <<>> THEN 0
    ELSE Head(items).words + SumWords(Tail(items))

\* ingest as an assignment instead of an append
ContextIngestReplace(items, buffer) == buffer

\* The Context Store of the design document: an append-only sequence.
ContextIngest(items, buffer) == items \o buffer

\* the words of the item ingested last, not of all items
getTotalWordCountLast(items) ==
    IF items = <<>> THEN 0 ELSE items[Len(items)].words

getTotalWordCount(items) == SumWords(items)

RECURSIVE getSources(_)
getSources(items) ==
    IF items = <<>> THEN <<>>
    ELSE [i \in 1..Head(items).refs |-> i] \o getSources(Tail(items))

\* the provider returns its references highest relevance first
Relevance(r) == NumRefs + 1 - r

getSourceCount(items) == Cardinality({getSources(items)[i] : i \in 1..Len(getSources(items))})

\* an interaction recorded as one more item of the store
itemsAfterLogAsItem(items, kind) == Append(items, UrlsItem(0))

\* the items of the store once an interaction is recorded: as before
itemsAfterLog(items, kind) == items

logInteraction(log, kind) == Append(log, kind)

(***************************************************************************)
(* executeSteps: the body of the try block for one step.                   *)
(***************************************************************************)
\* the identifiers that are bound where the try block runs: the parameters
\* and locals of executeSteps and the bindings of the module
ExecuteStepsScope ==
    {"steps", "context", "results", "step", "searchOptions", "urls",
     "deepDives", "url", "content", "err", "Coordinator", "WebSearcher",
     "ContentScraper", "ContextGraph", "Looper"}

InScope(id) == id \in ExecuteStepsScope

Outcome(t, res) == [thrown |-> t, results |-> res]

\* for (const url of deepDives): a read that throws leaves the loop
RECURSIVE deepDive(_, _, _)
deepDive(i, n, res) ==
    IF i > n THEN Outcome("none", res)
    ELSE IF readOutcome[i] = "throws" THEN Outcome("ContentUnreadable", res)
    ELSE deepDive(i + 1, n, Append(res, ContentItem(i, ReadWords)))

\* a step whose tool has no branch raises instead of falling through
tryBodyStrict(step, res) ==
    IF step.tool = "web_search"
    THEN IF ~InScope("plan")
         THEN Outcome("ReferenceError", res)
         ELSE IF ~step.hasQuery /\ ~InScope("query")
         THEN Outcome("ReferenceError", res)
         ELSE IF searchOutcome = "throws"
         THEN Outcome("ProviderUnavailable", res)
         ELSE LET n == IF searchOutcome = "empty" THEN 0 ELSE NumRefs
              IN  deepDive(1, Min(n, TopReads), Append(res, UrlsItem(n)))
    ELSE Outcome("UnknownTool", res)

tryBody(step, res) ==
    IF step.tool = "web_search"
    THEN IF ~InScope("plan")
         THEN Outcome("ReferenceError", res)
         ELSE IF ~step.hasQuery /\ ~InScope("query")
         THEN Outcome("ReferenceError", res)
         ELSE IF searchOutcome = "throws"
         THEN Outcome("ProviderUnavailable", res)
         ELSE LET n == IF searchOutcome = "empty" THEN 0 ELSE NumRefs
              IN  deepDive(1, Min(n, TopReads), Append(res, UrlsItem(n)))
    ELSE Outcome("none", res)

\* the step without its try/catch: the exception leaves executeSteps and start
afterStepRethrow(thrown, idx) ==
    IF thrown = "none" THEN [pc |-> "exec", stepIdx |-> idx + 1]
    ELSE [pc |-> "failed", stepIdx |-> idx]

\* the try/catch around the whole for loop: a failure ends the loop
afterStepAbort(thrown, idx) ==
    IF thrown = "none" THEN [pc |-> "exec", stepIdx |-> idx + 1]
    ELSE [pc |-> "exec", stepIdx |-> Len(plan.steps) + 1]

\* the buffer handed to ingest once its first step is over
afterStepEarlyIngest(thrown, idx) == [pc |-> "ingest", stepIdx |-> idx + 1]

\* catch (err) { console.error(...) }: the for loop goes on with the next step
afterStep(thrown, idx) == [pc |-> "exec", stepIdx |-> idx + 1]

(***************************************************************************)
(* start's own decisions.                                                  *)
(***************************************************************************)
\* a missing depth taken as deep
maxIterationsForAbsentDeep(d) == IF d = "fast" THEN FastBudget ELSE DeepBudget

maxIterationsFor(d) == IF d = "deep" THEN DeepBudget ELSE FastBudget

\* an off-by-one loop test
loopConditionInclusive(i, m) == i <= m

loopCondition(i, m) == i < m

\* iterations++ left out
nextIterationsStuck(i) == i

nextIterations(i) == i + 1

\* the two tests in the wrong order: the high band is never reached
evaluateProgressSwapped(wordCount) ==
    IF wordCount > LowWords
    THEN [satisfaction |-> MediumSatisfaction, missing_info |-> "Need more details"]
    ELSE IF wordCount > HighWords
    THEN [satisfaction |-> HighSatisfaction, missing_info |-> "undefined"]
    ELSE [satisfaction |-> LowSatisfaction,
          missing_info |-> "Search failed to yield content"]

\* the tests with >= instead of >
evaluateProgressInclusive(wordCount) ==
    IF wordCount >= HighWords
    THEN [satisfaction |-> HighSatisfaction, missing_info |-> "undefined"]
    ELSE IF wordCount >= LowWords
    THEN [satisfaction |-> MediumSatisfaction, missing_info |-> "Need more details"]
    ELSE [satisfaction |-> LowSatisfaction,
          missing_info |-> "Search failed to yield content"]

evaluateProgress(wordCount) ==
    IF wordCount > HighWords
    THEN [satisfaction |-> HighSatisfaction, missing_info |-> "undefined"]
    ELSE IF wordCount > LowWords
    THEN [satisfaction |-> MediumSatisfaction, missing_info |-> "Need more details"]
    ELSE [satisfaction |-> LowSatisfaction,
          missing_info |-> "Search failed to yield content"]

\* the break test against the top score instead of the threshold
satisfiedAboveTop(a) == a.satisfaction > HighSatisfaction

satisfied(a) == a.satisfaction > SatisfactionThreshold

Alternatives == <<"https://contrarian-blog.com", "https://archive.org">>

\* the answer is one fixed sentence around the source count
ConsensusAnswer == "consensus is coherent"

\* the last three sources instead of the first three
synthesizeTail(items) ==
    [answer |-> ConsensusAnswer,
     sourceCount |-> getSourceCount(items),
     sources |-> SubSeq(getSources(items),
                        Len(getSources(items)) + 1
                            - Min(TopSources, Len(getSources(items))),
                        Len(getSources(items))),
     alternatives |-> Alternatives,
     confidence |-> SynthesisConfidence]

synthesize(items) ==
    [answer |-> ConsensusAnswer,
     sourceCount |-> getSourceCount(items),
     sources |-> SubSeq(getSources(items), 1, Min(TopSources, Len(getSources(items)))),
     alternatives |-> Alternatives,
     confidence |-> SynthesisConfidence]

NoAudit == [satisfaction |-> 0, missing_info |-> "unset"]
NoResult == [answer |-> "none", sourceCount |-> 0, sources |-> <<>>, alternatives |-> <<>>,
             confidence |-> 0]

(***************************************************************************)
(* Initial states.                                                         *)
(***************************************************************************)
\* App before any search: the landing view
UIIdle ==
    /\ uiQuery = ""
    /\ uiFetch = "rejects"
    /\ uiStream = <<>>
    /\ uiPos = 0
    /\ uiPc = "idle"
    /\ isFusing = FALSE
    /\ view = "landing"
    /\ synthesis = "null"
    /\ fusionStep = ""

\* BubbleNav mounted with an empty query: the effect has set no bubbles
NavIdle ==
    /\ navQuery = ""
    /\ timer = "none"
    /\ inflight = {}
    /\ bubbles = "none"
    /\ fetchFailed = FALSE

NoRequest == [kind |-> "none"]
NoResponse == [status |-> 0, body |-> "none"]

\* AIServer constructed: new Map(), no request yet
ServerIdle ==
    /\ envPassword = "undefined"
    /\ cache = {}
    /\ request = NoRequest
    /\ response = NoResponse

OthersIdle == UIIdle /\ NavIdle /\ ServerIdle

EngineInit(qs, stores) ==
    /\ query \in qs
    /\ entry \in {"start", "search"}
    /\ reqDepth \in DepthValues
    /\ depth = IF entry = "start" THEN reqDepth ELSE "absent"
    /\ http = IF entry = "search" THEN "request" ELSE "none"
    /\ events = <<>>
    /\ searchOutcome \in SearchOutcomes
    /\ readOutcome \in ReadOutcomes
    /\ store \in stores
    /\ pc = "start"
    /\ iterations = 0
    /\ maxIterations = 0
    /\ plan = NoPlan
    /\ stepIdx = 0
    /\ results = <<>>
    /\ newIntel = <<>>
    /\ interactions = <<>>
    /\ audit = NoAudit
    /\ auditWordCount = 0
    /\ result = NoResult
    /\ visited = {}
    /\ failed = {}
    /\ execPhases = 0
    /\ ingestCalls = 0
    /\ evalCalls = 0
    /\ replanCalls = 0

InitWith(qs, stores) == OthersIdle /\ EngineInit(qs, stores)

\* new ContextGraph(): an empty store
Init == InitWith(QueryInputs(MaxQueryLen), {<<>>})

(***************************************************************************)
(* Actions: the steps of start.                                            *)
(***************************************************************************)
Start ==
    /\ pc = "start"
    /\ entry = "start" \/ http = "called"
    /\ iterations' = 0
    /\ maxIterations' = maxIterationsFor(depth)
    /\ pc' = "plan"
    /\ UNCHANGED <<inputs, handler, others, plan, stepIdx, results, newIntel, store,
                   interactions, audit, auditWordCount, result, visited,
                   failed, counters>>

Plan ==
    /\ pc = "plan"
    /\ IF IsString(query)
       THEN /\ plan' = CoordinatorPlan(query)
            /\ pc' = "log"
       ELSE \* query.toLowerCase is not a function: start rejects
            /\ plan' = plan
            /\ pc' = "failed"
    /\ UNCHANGED <<inputs, handler, others, iterations, maxIterations, stepIdx, results,
                   newIntel, store, interactions, audit, auditWordCount,
                   result, visited, failed, counters>>

LogPlan ==
    /\ pc = "log"
    /\ interactions' = logInteraction(interactions, "PLAN_CREATED")
    /\ store' = itemsAfterLog(store, "PLAN_CREATED")
    /\ pc' = "loop"
    /\ UNCHANGED <<inputs, handler, others, iterations, maxIterations, plan, stepIdx, results,
                   newIntel, audit, auditWordCount, result, visited,
                   failed, counters>>

LoopTest ==
    /\ pc = "loop"
    /\ execPhases < MaxPhases
    /\ IF loopCondition(iterations, maxIterations)
       THEN /\ pc' = "exec"
            /\ stepIdx' = 1
            /\ results' = <<>>
            /\ visited' = {}
            /\ failed' = {}
            /\ execPhases' = execPhases + 1
       ELSE /\ pc' = "synthesize"
            /\ UNCHANGED <<stepIdx, results, visited, failed, execPhases>>
    /\ UNCHANGED <<inputs, handler, others, iterations, maxIterations, plan, newIntel, store,
                   interactions, audit, auditWordCount, result, ingestCalls,
                   evalCalls, replanCalls>>

ExecStep ==
    /\ pc = "exec"
    /\ stepIdx <= Len(plan.steps)
    /\ LET out == tryBody(plan.steps[stepIdx], results)
           next == afterStep(out.thrown, stepIdx)
       IN  /\ results' = out.results
           /\ visited' = visited \cup {stepIdx}
           /\ failed' = IF out.thrown = "none" THEN failed
                        ELSE failed \cup {stepIdx}
           /\ pc' = next.pc
           /\ stepIdx' = next.stepIdx
    /\ UNCHANGED <<inputs, handler, others, iterations, maxIterations, plan, newIntel, store,
                   interactions, audit, auditWordCount, result, counters>>

ExecReturn ==
    /\ pc = "exec"
    /\ stepIdx > Len(plan.steps)
    /\ newIntel' = results
    /\ pc' = "ingest"
    /\ UNCHANGED <<inputs, handler, others, iterations, maxIterations, plan, stepIdx, results,
                   store, interactions, audit, auditWordCount, result,
                   visited, failed, counters>>

Ingest ==
    /\ pc = "ingest"
    /\ store' = ContextIngest(store, newIntel)
    /\ ingestCalls' = ingestCalls + 1
    /\ pc' = "evaluate"
    /\ UNCHANGED <<inputs, handler, others, iterations, maxIterations, plan, stepIdx, results,
                   newIntel, interactions, audit, auditWordCount, result,
                   visited, failed, execPhases, evalCalls, replanCalls>>

Evaluate ==
    /\ pc = "evaluate"
    /\ auditWordCount' = getTotalWordCount(store)
    /\ audit' = evaluateProgress(auditWordCount')
    /\ evalCalls' = evalCalls + 1
    /\ pc' = "decide"
    /\ UNCHANGED <<inputs, handler, others, iterations, maxIterations, plan, stepIdx, results,
                   newIntel, store, interactions, result, visited, failed,
                   execPhases, ingestCalls, replanCalls>>

Decide ==
    /\ pc = "decide"
    /\ IF satisfied(audit)
       THEN /\ pc' = "synthesize"
            /\ UNCHANGED <<plan, iterations, replanCalls>>
       ELSE /\ plan' = CoordinatorReplan(query, audit.missing_info)
            /\ replanCalls' = replanCalls + 1
            /\ iterations' = nextIterations(iterations)
            /\ pc' = "loop"
    /\ UNCHANGED <<inputs, handler, others, maxIterations, stepIdx, results, newIntel, store,
                   interactions, audit, auditWordCount, result, visited,
                   failed, execPhases, ingestCalls, evalCalls>>

Synthesize ==
    /\ pc = "synthesize"
    /\ result' = synthesize(store)
    /\ pc' = "done"
    /\ UNCHANGED <<inputs, handler, others, iterations, maxIterations, plan, stepIdx, results,
                   newIntel, store, interactions, audit, auditWordCount,
                   visited, failed, counters>>

(***************************************************************************)
(* POST /search: the handler around start.                                 *)
(***************************************************************************)
ProgressEvents == <<"progress", "progress", "progress", "progress">>

writeComplete(ev) == Append(ev, "complete")

\* the catch that answers with the result chunk all the same
writeErrorAsComplete(ev) == Append(ev, "complete")

writeError(ev) == Append(ev, "error")

looperState == <<pc, iterations, maxIterations, plan, stepIdx, results,
                 newIntel, store, interactions, audit, auditWordCount,
                 result, visited, failed, counters>>

SearchReceive ==
    /\ http = "request"
    /\ IF Falsy(query)
       THEN /\ http' = "rejected"
            /\ events' = events
       ELSE /\ http' = "streaming"
            /\ events' = events \o ProgressEvents
    /\ UNCHANGED <<inputs, others, looperState>>

SearchCall ==
    /\ http = "streaming"
    /\ depth' = searchDepth(query)
    /\ http' = "called"
    /\ UNCHANGED <<query, searchOutcome, readOutcome, entry, reqDepth,
                   events, others, looperState>>

SearchComplete ==
    /\ http = "called"
    /\ pc = "done"
    /\ events' = writeComplete(events)
    /\ http' = "complete"
    /\ UNCHANGED <<inputs, others, looperState>>

SearchError ==
    /\ http = "called"
    /\ pc = "failed"
    /\ events' = writeError(events)
    /\ http' = "error"
    /\ UNCHANGED <<inputs, others, looperState>>

Next ==
    \/ SearchReceive
    \/ SearchCall
    \/ SearchComplete
    \/ SearchError
    \/ Start
    \/ Plan
    \/ LogPlan
    \/ LoopTest
    \/ ExecStep
    \/ ExecReturn
    \/ Ingest
    \/ Evaluate
    \/ Decide
    \/ Synthesize

Spec == Init /\ [][Next]_vars

\* start is one async function: each await resumes, so a step that can be
\* taken is taken
FairSpec == Spec /\ WF_vars(Next)

(***************************************************************************)
(* The same loop entered with a store that already holds content.  The     *)
(* session as written never gathers any (see tryBody), so the evaluator's  *)
(* bands and the decision that follows them are exercised from here, as    *)
(* functions of the store.                                                 *)
(***************************************************************************)
SampleWords == {1, 499, 500, 501}

SampleStores ==
    {<<>>}
    \cup {<<UrlsItem(NumRefs), ContentItem(1, w)>> : w \in SampleWords}
    \cup {<<UrlsItem(NumRefs), ContentItem(1, w[1]), ContentItem(2, w[2])>> :
            w \in SampleWords \X SampleWords}

InitAnyStore == InitWith(QueryInputs(AnyStoreQueryLen), SampleStores)

SpecAnyStore == InitAnyStore /\ [][Next]_vars

(***************************************************************************)
(* App.handleSearch of the frontend: one search, from the call to the end  *)
(* of the response stream.                                                 *)
(***************************************************************************)
\* lines of a response body
MaxChunks == 3

\* what a line of the body parses to; "garbage" does not parse
ChunkTypes == {"progress", "complete", "error", "garbage"}

Streams == UNION {[1..n -> ChunkTypes] : n \in 0..MaxChunks}

UIQueries == {"", " ", "weather"}

FetchOutcomes == {"rejects", "notok", "ok"}

\* !activeQuery.trim()
trimmedEmpty(q) == q \in {"", " "}

\* the engine with no session: the state the other programs run beside
EngineIdle ==
    /\ EngineInit({<<>>}, {<<>>})
    /\ entry = "start"
    /\ reqDepth = "absent"
    /\ searchOutcome = "throws"
    /\ readOutcome = [i \in 1..TopReads |-> "throws"]

engine == <<inputs, handler, looperState>>

notUI == <<engine, navVars, serverVars>>

InitUI ==
    /\ EngineIdle
    /\ NavIdle
    /\ ServerIdle
    /\ uiQuery \in UIQueries
    /\ uiFetch \in FetchOutcomes
    /\ uiStream \in Streams
    /\ uiPos = 0
    /\ uiPc = "idle"
    /\ isFusing = FALSE
    /\ view = "landing"
    /\ synthesis = "null"
    /\ fusionStep = ""

handleSearch ==
    /\ uiPc = "idle"
    /\ IF trimmedEmpty(uiQuery)
       THEN /\ uiPc' = "returned"
            /\ UNCHANGED <<isFusing, fusionStep>>
       ELSE /\ uiPc' = "fetch"
            /\ isFusing' = TRUE
            /\ fusionStep' = "Initializing Stream..."
    /\ UNCHANGED <<uiQuery, uiFetch, uiStream, uiPos, view, synthesis, notUI>>

\* await fetch(...); if (!response.ok) throw; the outer catch
FetchSettles ==
    /\ uiPc = "fetch"
    /\ IF uiFetch = "ok"
       THEN /\ uiPc' = "read"
            /\ UNCHANGED <<isFusing, view, synthesis>>
       ELSE /\ synthesis' = "ERROR"
            /\ view' = "synthesis"
            /\ isFusing' = FALSE
            /\ uiPc' = "returned"
    /\ UNCHANGED <<uiQuery, uiFetch, uiStream, uiPos, fusionStep, notUI>>

\* one line of the body: the inner try, whose catch only warns
ReadLine ==
    /\ uiPc = "read"
    /\ uiPos < Len(uiStream)
    /\ uiPos' = uiPos + 1
    /\ CASE uiStream[uiPos'] = "progress" ->
                /\ fusionStep' = "step"
                /\ UNCHANGED <<isFusing, view, synthesis>>
         [] uiStream[uiPos'] = "complete" ->
                /\ synthesis' = "data"
                /\ isFusing' = FALSE
                /\ view' = "synthesis"
                /\ UNCHANGED fusionStep
         [] OTHER ->
                \* throw new Error(chunk.message), or JSON.parse throws:
                \* caught at once, console.warn
                UNCHANGED <<isFusing, view, synthesis, fusionStep>>
    /\ UNCHANGED <<uiQuery, uiFetch, uiStream, uiPc, notUI>>

\* { done: true }: break, and handleSearch returns
ReadDone ==
    /\ uiPc = "read"
    /\ uiPos = Len(uiStream)
    /\ uiPc' = "returned"
    /\ UNCHANGED <<uiQuery, uiFetch, uiStream, uiPos, isFusing, view, synthesis,
                   fusionStep, notUI>>

NextUI ==
    \/ handleSearch
    \/ FetchSettles
    \/ ReadLine
    \/ ReadDone

SpecUI == InitUI /\ [][NextUI]_vars

(***************************************************************************)
(* BubbleNav: the effect on the query prop, its debounce timer and the     *)
(* /suggest fetches it starts.                                             *)
(***************************************************************************)
NavQueries == {"", "ab", "patent", "video", "weather"}

\* the characters of a query
NavLength(q) ==
    CASE q = "" -> 0
      [] q = "ab" -> 2
      [] q = "patent" -> 6
      [] q = "video" -> 5
      [] OTHER -> 7

\* !query || query.length < 3
MinNavLength == 3
tooShort(q) == q = "" \/ NavLength(q) < MinNavLength

\* Navigator.heuristicSuggestions, by the name of the bubble set it returns
heuristicSuggestions(q) ==
    CASE q = "patent" -> "patent"
      [] q = "video" -> "video"
      [] OTHER -> "explorer"

InitNav ==
    /\ EngineIdle
    /\ UIIdle
    /\ ServerIdle
    /\ NavIdle

notNav == <<engine, uiVars, serverVars>>

\* the query prop changes: the cleanup clears the timer, the effect runs
QueryChanges ==
    \E q \in NavQueries \ {navQuery} :
        /\ navQuery' = q
        /\ IF tooShort(q)
           THEN /\ bubbles' = "none"
                /\ timer' = "none"
           ELSE /\ timer' = q
                /\ bubbles' = bubbles
        /\ UNCHANGED <<inflight, fetchFailed, notNav>>

\* 300 ms later: the fetch of /suggest starts
TimerFires ==
    /\ timer # "none"
    /\ inflight' = inflight \cup {timer}
    /\ timer' = "none"
    /\ UNCHANGED <<navQuery, bubbles, fetchFailed, notNav>>

\* .then(data => { if (data.bubbles) setBubbles(data.bubbles) })
SuggestResolves ==
    \E q \in inflight :
        /\ inflight' = inflight \ {q}
        /\ bubbles' = heuristicSuggestions(q)
        /\ UNCHANGED <<navQuery, timer, fetchFailed, notNav>>

\* .catch(err => console.error(...))
SuggestRejects ==
    \E q \in inflight :
        /\ inflight' = inflight \ {q}
        /\ fetchFailed' = TRUE
        /\ UNCHANGED <<navQuery, timer, bubbles, notNav>>

NextNav ==
    \/ QueryChanges
    \/ TimerFires
    \/ SuggestResolves
    \/ SuggestRejects

SpecNav == InitNav /\ [][NextNav]_vars

(***************************************************************************)
(* AIServer: the result cache of /api/analyze and /api/cache/clear.        *)
(***************************************************************************)
\* str.charCodeAt(i) for the strings a cache key is made of
CharCodes(str) ==
    CASE str = "text-analysis" ->
            <<116, 101, 120, 116, 45, 97, 110, 97, 108, 121, 115, 105, 115>>
      [] str = "context-search" ->
            <<99, 111, 110, 116, 101, 120, 116, 45, 115, 101, 97, 114, 99, 104>>
      [] str = "bogus" -> <<98, 111, 103, 117, 115>>
      [] str = "medium" -> <<109, 101, 100, 105, 117, 109>>
      [] str = "low" -> <<108, 111, 119>>
      [] str = ":" -> <<58>>
      [] str = "Aa" -> <<65, 97>>
      [] str = "BB" -> <<66, 66>>
      [] str = "Ab" -> <<65, 98>>
      [] str = "#42" -> <<52, 50>>
      [] OTHER -> <<>>

Quote == <<34>>

\* JSON.stringify(data): a string in quotes, a number as its digits
JSONstringify(data) ==
    IF data = "#42" THEN CharCodes(data)
    ELSE Quote \o CharCodes(data) \o Quote

\* a 32-bit hash as its two 16-bit halves
HalfWord == 65536
\* (hash << 5) - hash
HashFactor == 31

\* hash = ((hash << 5) - hash) + char; hash = hash & hash
hashStep(h, char) ==
    LET low == HashFactor * h.lo + char
    IN  [hi |-> (HashFactor * h.hi + (low \div HalfWord)) % HalfWord,
         lo |-> low % HalfWord]

RECURSIVE hashFrom(_, _)
hashFrom(h, codes) ==
    IF codes = <<>> THEN h
    ELSE hashFrom(hashStep(h, Head(codes)), Tail(codes))

\* hashString: toString(36) is one-to-one on the 32-bit value
hashString(codes) == hashFrom([hi |-> 0, lo |-> 0], codes)

generateCacheKey(type, data, privacyLevel) ==
    hashString(CharCodes(type) \o CharCodes(":") \o CharCodes(privacyLevel)
               \o CharCodes(":") \o JSONstringify(data))

AnalysisTypes == {"", "text-analysis", "context-search", "bogus"}
AnalysisData == {"", "Aa", "BB", "#42"}
PrivacyLevels == {"medium", "low"}
Passwords == {"undefined", "secret", "wrong"}

\* analyzeText and contextSearch at these privacy levels: the result holds
\* the text it was given
analysisResult(type, data) == [type |-> type, text |-> data]

\* text.split is not a function
analysisThrows(type, data) == type = "text-analysis" /\ data = "#42"

cacheHas(key) == \E e \in cache : e.key = key
cacheGet(key) == (CHOOSE e \in cache : e.key = key).value
cacheSet(key, value) ==
    {e \in cache : e.key # key} \cup {[key |-> key, value |-> value]}

InitServer ==
    /\ EngineIdle
    /\ UIIdle
    /\ NavIdle
    /\ envPassword \in {"undefined", "secret"}
    /\ cache = {}
    /\ request = NoRequest
    /\ response = NoResponse

notServer == <<engine, uiVars, navVars>>

\* POST /api/analyze
Analyze ==
    \E type \in AnalysisTypes, data \in AnalysisData,
       privacyLevel \in PrivacyLevels :
        LET cacheKey == generateCacheKey(type, data, privacyLevel)
        IN  /\ request' = [kind |-> "analyze", type |-> type, data |-> data,
                           privacyLevel |-> privacyLevel]
            /\ IF type = "" \/ data = ""
               THEN /\ response' = [status |-> 400, body |-> "Missing type or data"]
                    /\ cache' = cache
               ELSE IF cacheHas(cacheKey)
               THEN /\ response' = [status |-> 200, body |-> cacheGet(cacheKey)]
                    /\ cache' = cache
               ELSE IF type \notin {"text-analysis", "context-search"}
               THEN /\ response' = [status |-> 400,
                                    body |-> "Unsupported analysis type"]
                    /\ cache' = cache
               ELSE IF analysisThrows(type, data)
               THEN /\ response' = [status |-> 500, body |-> "Analysis failed"]
                    /\ cache' = cache
               ELSE /\ cache' = cacheSet(cacheKey, analysisResult(type, data))
                    /\ response' = [status |-> 200,
                                    body |-> analysisResult(type, data)]
            /\ UNCHANGED <<envPassword, notServer>>

\* POST /api/cache/clear
ClearCache ==
    \E password \in Passwords :
        /\ request' = [kind |-> "clear", password |-> password]
        /\ IF password # envPassword
           THEN /\ response' = [status |-> 401, body |-> "Unauthorized"]
                /\ cache' = cache
           ELSE /\ cache' = {}
                /\ response' = [status |-> 200, body |-> "cleared"]
        /\ UNCHANGED <<envPassword, notServer>>

NextServer ==
    \/ Analyze
    \/ ClearCache

SpecServer == InitServer /\ [][NextServer]_vars

(***************************************************************************)
(* Properties.                                                             *)
(***************************************************************************)
AllProvidersFail ==
    /\ searchOutcome = "throws"
    /\ \A i \in 1..TopReads : readOutcome[i] = "throws"

\* the iteration budget of the session: 4 for deep, 2 otherwise
Budget == IF depth = "deep" THEN DeepBudget ELSE FastBudget

HasWebSearch == \E i \in 1..Len(plan.steps) : plan.steps[i].tool = "web_search"

\* C1: a session with budget B calls the evaluator at most B + 1 times and
\* reaches Done, whatever the providers do: the loop never runs forever.
C1_Terminates ==
    /\ [](evalCalls <= Budget + 1)
    /\ (pc = "plan" /\ IsString(query)) ~> (pc = "done")

C1_Witness ==
    /\ pc = "done"
    /\ depth = "deep"
    /\ searchOutcome = "empty"
    /\ evalCalls = DeepBudget

\* C2: when no audit reaches 0.85, a session with budget B runs exactly B
\* execute-ingest-evaluate iterations and then returns a SynthesisResult.
C2_ExactlyBudget ==
    (pc = "done" /\ audit.satisfaction < SatisfactionThreshold)
        => /\ execPhases = Budget
           /\ ingestCalls = Budget
           /\ evalCalls = Budget
           /\ result = synthesize(store)
           /\ result # NoResult

C2_Witness ==
    /\ pc = "done"
    /\ depth = "fast"
    /\ searchOutcome = "empty"
    /\ audit.satisfaction < SatisfactionThreshold
    /\ execPhases = FastBudget
    /\ result # NoResult

\* C3: when every provider call fails, no exception leaves executeSteps (it
\* returns its buffer every time) and start returns a SynthesisResult.
C3_NoPropagation ==
    (AllProvidersFail /\ IsString(query))
        => /\ pc # "failed"
           /\ (pc = "ingest" => newIntel = results)
           /\ (pc = "done" => result # NoResult /\ execPhases = ingestCalls)

C3_Witness ==
    /\ AllProvidersFail
    /\ pc = "done"
    /\ failed # {}
    /\ result # NoResult

\* C4: once an audit has satisfaction >= 0.85 the loop goes straight to the
\* synthesis: no replan and no executeSteps call follows, whatever budget
\* remains.
C4_SatisfiedStops ==
    [][audit.satisfaction >= SatisfactionThreshold
        => /\ pc' \in {"synthesize", "done"}
           /\ execPhases' = execPhases
           /\ replanCalls' = replanCalls]_vars

C4_Witness ==
    /\ pc = "done"
    /\ audit.satisfaction >= SatisfactionThreshold
    /\ depth = "deep"
    /\ execPhases = 1
    /\ replanCalls = 0
    /\ result # NoResult

\* C5: when a step of the plan fails, the later steps of the same
\* executeSteps call still run, and the whole buffer is ingested in that
\* iteration.
C5_LaterStepsRun ==
    /\ pc = "ingest" => (visited = 1..Len(plan.steps) /\ newIntel = results)
    /\ pc = "evaluate" =>
          /\ Len(store) >= Len(newIntel)
          /\ SubSeq(store, Len(store) - Len(newIntel) + 1, Len(store)) = newIntel

C5_Witness ==
    /\ pc = "evaluate"
    /\ failed = {1}
    /\ visited = {1, 2}

\* C6: when the read of the first of the two top references throws and the
\* read of the second would succeed, the second is read and its ReadContent
\* is ingested.
C6_SecondReadIngested ==
    (/\ pc = "done"
     /\ query # <<>>
     /\ HasWebSearch
     /\ searchOutcome = "refs"
     /\ readOutcome[1] = "throws"
     /\ readOutcome[2] = "ok")
        => \E k \in 1..Len(store) :
              store[k].type = "content" /\ store[k].source = 2

SampleTotals == {getTotalWordCount(st) : st \in SampleStores}

MessageIffUnsatisfied ==
    audit.missing_info # "undefined" <=> audit.satisfaction < SatisfactionThreshold

MonotoneOnSamples ==
    \A v \in SampleTotals : \A w \in SampleTotals :
        v <= w => evaluateProgress(v).satisfaction <= evaluateProgress(w).satisfaction

C9_WordCountMonotone ==
    [][getTotalWordCount(store') >= getTotalWordCount(store)]_vars

C9_Witness ==
    /\ ingestCalls > 0
    /\ pc = "evaluate"
    /\ getTotalWordCount(store) > 0
\* C11: the budget of a session is a function of the depth flag start is
\* given alone: 4 for "deep", 2 for "fast" and for no flag; it is set when the
\* session starts and no later step changes it.
C11_BudgetFromDepth ==
    /\ [](pc \notin {"start"} => maxIterations = Budget)
    /\ [][pc # "start" => maxIterations' = maxIterations]_vars

\* a session without a depth flag has run its two iterations and ended
C11_Witness ==
    /\ pc = "done"
    /\ entry = "start"
    /\ depth = "absent"
    /\ maxIterations = FastBudget
    /\ iterations = FastBudget
    /\ evalCalls = FastBudget

\* the budget a /search request with query q runs with: the body's depth
\* flag, if any, is not read
searchBudget(q) == maxIterationsFor(searchDepth(q))

\* C12: the budget does not depend on the length of the query: a /search
\* request runs with the budget every other /search request with the same
\* depth flag runs with, whatever the two queries are.
C12_BudgetIgnoresLength ==
    (/\ entry = "search"
     /\ query \in Queries
     /\ http = "called"
     /\ pc \notin {"start", "failed"})
        => \A q2 \in Queries \ {<<>>} : searchBudget(q2) = maxIterations

\* query.trim() === '': the empty query and the query of blanks
IsBlank(q) == q = <<>> \/ q = BlankQuery

\* C13: a session whose query is empty or only blanks is rejected by plan
\* before the loop starts: no plan is made, no iteration runs, no provider
\* is called and no result is produced.
C13_BlankRejected ==
    IsBlank(query)
        => /\ plan = NoPlan
           /\ execPhases = 0
           /\ visited = {}
           /\ result = NoResult
           /\ pc # "done"

\* the session holds a plan: plan, or a later replan, has returned
HasPlan == pc \notin {"start", "plan", "failed"}

\* C14: whatever the non-empty query and its intent category, the plan the
\* session holds, from plan or from a later replan, has at least one step.
C14_StepsNonEmpty ==
    (HasPlan /\ query # <<>>) => Len(plan.steps) >= 1

\* a deep-research session holds the plan of its first replan
C14_Witness ==
    /\ query = <<"why">>
    /\ plan.intent.type = "DEEP_RESEARCH"
    /\ replanCalls = 1
    /\ pc = "loop"
    /\ Len(plan.steps) = 1

\* the tools executeSteps has a branch for
KnownTools == {"web_search"}

\* C15: every step of every plan a session holds names a tool executeSteps
\* dispatches on: no plan has a step the loop passes over.
C15_ToolsKnown ==
    HasPlan => \A i \in 1..Len(plan.steps) : plan.steps[i].tool \in KnownTools

\* the rules of classify in their stated order
RuleOrder ==
    <<[type |-> "MEDIA_COMPILATION", keys |-> MediaKeywords],
      [type |-> "OFFLINE_ANALYSIS", keys |-> OfflineKeywords],
      [type |-> "DEEP_RESEARCH", keys |-> ResearchKeywords],
      [type |-> "ADULT_CONTENT", keys |-> AdultKeywords]>>

Matching(q) == {i \in 1..Len(RuleOrder) : includesAny(q, RuleOrder[i].keys)}

FirstMatch(q) ==
    IF Matching(q) = {} THEN "GENERAL_QUERY"
    ELSE RuleOrder[CHOOSE i \in Matching(q) : \A j \in Matching(q) : i <= j].type

IngestedRefs == UNION {1..store[i].refs : i \in 1..Len(store)}

IncludedRefs == {result.sources[i] : i \in 1..Len(result.sources)}

NoInformationAnswer == "no information found"

\* C18: a session that ends with no source ingested, or with a last audit of
\* low satisfaction, ends with a result all the same, whose confidence is
\* below 0.5 and whose answer says that no information was found.
C18_LowConfidenceWhenEmpty ==
    (/\ pc = "done"
     /\ query \in Queries \ {<<>>}
     /\ IngestedRefs = {} \/ audit.satisfaction < 50)
        => /\ result # NoResult
           /\ result.confidence < 50
           /\ result.answer = NoInformationAnswer

\* C19: the alternatives of the result come from the store: a session whose
\* store holds no item at all, so none marked divergent, has none.
C19_AlternativesFromStore ==
    (pc = "done" /\ query \in Queries \ {<<>>} /\ store = <<>>)
        => result.alternatives = <<>>

\* the chunks of type t in a stream
Count(ev, t) == Cardinality({i \in 1..Len(ev) : ev[i] = t})

EndsWithOne(ev, t) == Len(ev) >= 1 /\ ev[Len(ev)] = t /\ Count(ev, t) = 1

\* C20: an error raised inside start ends the session there, with no result;
\* the /search stream of that request then ends with one 'error' chunk and
\* holds no 'complete' chunk, and the stream of a session that returned ends
\* with one 'complete' chunk and holds no 'error' chunk; nothing is written
\* after either.
C20_ErrorOrComplete ==
    /\ [](pc = "failed" => result = NoResult /\ execPhases = 0)
    /\ [][pc = "failed" => pc' = "failed"]_vars
    /\ [](http = "error"
            => /\ pc = "failed"
               /\ EndsWithOne(events, "error")
               /\ Count(events, "complete") = 0)
    /\ [](http = "complete"
            => /\ pc = "done"
               /\ EndsWithOne(events, "complete")
               /\ Count(events, "error") = 0)
    /\ [][(http = "error" \/ http = "complete") => events' = events]_vars
    /\ (http = "called" /\ pc = "failed") ~> (http = "error")
    /\ (http = "called" /\ pc = "done") ~> (http = "complete")

\* the planner has thrown on a query that is no string, and the handler has
\* answered
C20_Witness ==
    /\ entry = "search"
    /\ query = NonStringQuery
    /\ pc = "failed"
    /\ http = "error"
    /\ events = ProgressEvents \o <<"error">>

\* C21: replan is called only after an unsatisfied audit with budget left,
\* so each replan is followed by an executing phase: a session that ended
\* after k executing phases has called replan k - 1 times.
C21_ReplanThenExecute ==
    /\ [][replanCalls' # replanCalls
            => /\ audit.satisfaction <= SatisfactionThreshold
               /\ iterations + 1 < maxIterations]_vars
    /\ [](pc = "done" => replanCalls = execPhases - 1)

AllSteps == 1..Len(plan.steps)

\* C22: the store stays as it is through the whole executing phase; it
\* changes only once every step of the iteration has completed or failed, by
\* the whole buffer of the iteration; the evaluator and the synthesizer run
\* on a store that has taken in the buffer of every executing phase so far.
C22_IngestAfterExecuting ==
    /\ [][pc = "exec" => store' = store]_vars
    /\ [][store' # store \/ ingestCalls' # ingestCalls
            => /\ visited = AllSteps
               /\ stepIdx > Len(plan.steps)
               /\ newIntel = results
               /\ store' = store \o results]_vars
    /\ [](pc \in {"evaluate", "decide", "synthesize", "done"}
            => ingestCalls = execPhases)

\* a plan of three steps has been gone through and its buffer ingested into
\* a store that held content
C22_Witness ==
    /\ pc = "evaluate"
    /\ Len(plan.steps) = 3
    /\ visited = AllSteps
    /\ ingestCalls = 1
    /\ store # <<>>

\* C23: no step but the ingest changes the items of the store: planning and
\* the recording of the plan, the executing phase, the evaluator and the
\* synthesizer all leave them as they found them.
C23_OnlyIngestWrites ==
    [][(pc # "ingest") => store' = store]_vars

\* a session over a store that held content has ended, and the store is one
\* of the stores sessions start from
C23_Witness ==
    /\ pc = "done"
    /\ store \in SampleStores \ {<<>>}
    /\ interactions # <<>>
    /\ evalCalls >= 1
    /\ result # NoResult

\* the words of the first n items of a store
RECURSIVE WordsUpTo(_, _)
WordsUpTo(items, n) ==
    IF n = 0 THEN 0 ELSE items[n].words + WordsUpTo(items, n - 1)

\* C24: the audit of an iteration is computed from the words of every item
\* the store holds, whatever iteration ingested it, not from the last buffer:
\* it is satisfied exactly when they exceed the high threshold, and from one
\* evaluation of a session to the next the satisfaction never goes down.
C24_AuditCumulative ==
    /\ [](pc = "decide"
            => /\ auditWordCount = WordsUpTo(store, Len(store))
               /\ audit.satisfaction > SatisfactionThreshold
                    <=> WordsUpTo(store, Len(store)) > HighWords)
    /\ [][(evalCalls >= 1 /\ evalCalls' = evalCalls + 1)
            => audit'.satisfaction >= audit.satisfaction]_vars

\* the second iteration ingested nothing, and its audit still has the medium
\* satisfaction the words of the earlier items give
C24_Witness ==
    /\ pc = "decide"
    /\ evalCalls = 2
    /\ newIntel = <<>>
    /\ WordsUpTo(store, Len(store)) > LowWords
    /\ audit.satisfaction = MediumSatisfaction

Unrecognised(i) == plan.steps[i].tool \notin KnownTools

AllUnrecognised == HasPlan /\ \A i \in AllSteps : Unrecognised(i)

\* C26: a step whose tool executeSteps has no branch for is passed over
\* without an error: the buffer stays as it was and the next step runs; a
\* plan of such steps only gives an empty buffer, which is ingested and
\* evaluated, and the session ends as any other.
C26_UnknownToolSkipped ==
    /\ [][(pc = "exec" /\ stepIdx <= Len(plan.steps) /\ Unrecognised(stepIdx))
            => /\ results' = results
               /\ failed' = failed
               /\ pc' = "exec"
               /\ stepIdx' = stepIdx + 1]_vars
    /\ []((pc = "ingest" /\ AllUnrecognised)
            => visited = AllSteps /\ failed = {} /\ newIntel = <<>>)
    /\ (pc = "exec" /\ AllUnrecognised) ~> (pc = "done" /\ result # NoResult)

\* a media plan, three steps and none of them web_search, was passed over in
\* each iteration and the session has ended
C26_Witness ==
    /\ pc = "done"
    /\ query = <<"video">>
    /\ Len(plan.steps) = 3
    /\ AllUnrecognised
    /\ failed = {}
    /\ ingestCalls = execPhases
    /\ evalCalls >= FastBudget

\* the streams the /search handler writes: they end with a terminal line
EndsTerminal(st) == st # <<>> /\ st[Len(st)] \in {"complete", "error"}

\* C27: once the response stream has ended and handleSearch has returned,
\* the spinner is gone and the synthesis view is shown, whatever lines the
\* stream held; here for the streams that end with a terminal line, where a
\* last line of type 'error' shows the error synthesis.
C27_SpinnerEnds ==
    (/\ uiPc = "returned"
     /\ ~trimmedEmpty(uiQuery)
     /\ uiFetch = "ok"
     /\ EndsTerminal(uiStream))
        => /\ isFusing = FALSE
           /\ view = "synthesis"
           /\ uiStream[Len(uiStream)] = "error" => synthesis = "ERROR"

\* the bubbles /suggest returns for a query
BubblesFor(q) == IF tooShort(q) THEN "none" ELSE heuristicSuggestions(q)

\* C28: once no timer is pending and no fetch is in flight, and none was
\* rejected, the bubbles shown are those returned for the current query, and
\* none when it has fewer than 3 characters: a late response to an earlier
\* query does not replace them.
C28_LatestQueryWins ==
    (timer = "none" /\ inflight = {} /\ ~fetchFailed)
        => bubbles = BubblesFor(navQuery)

\* C29: the cache holds, under the key of a request, the result of that
\* request's own analysis only: a request answered 200, from the cache or
\* not, gets the result of the analysis of its own type and data, and a
\* request answered otherwise leaves the cache as it was.
C29_CacheHoldsOwnResults ==
    /\ [](request.kind = "analyze" /\ response.status = 200
            => response.body = [type |-> request.type, text |-> request.data])
    /\ [][(request'.kind = "analyze" /\ response'.status # 200)
            => cache' = cache]_vars

\* C30: the cache is emptied only by a request that gives the configured
\* password: a request with a wrong password or none is answered 401, also
\* when no password is configured, and leaves the cache as it was; after an
\* authorised clear the cache is empty.
C30_ClearNeedsPassword ==
    /\ [](request.kind = "clear"
            => IF request.password = "secret" /\ envPassword = "secret"
               THEN response.status = 200 /\ cache = {}
               ELSE response.status = 401)
    /\ [][(request'.kind = "clear" /\ response'.status = 401)
            => cache' = cache]_vars

====================================================================
